---- MODULE Spec2Model ----
(***************************************************************************)
(* A model of waveio.py: the RIFF chunk scanner (RiffReader), the WAVE     *)
(* reader (WaveFileReader), the sample decoders and the sequential writer  *)
(* (WaveFileWriter).  Streams are sequences of bytes (0..255); a Python    *)
(* exception is the value of ret.err after the call that raised it.        *)
(***************************************************************************)
EXTENDS Integers, Sequences, FiniteSets, TLC

VARIABLES
    w,        \* the WaveFileWriter object: its slots (f is "open" or "None")
    file,     \* the bytes of the writer's destination stream
    written,  \* history: the frames handed to the writes that returned normally
    rsrc,     \* the bytes of the reader's source stream
    rd,       \* the WaveFileReader object: its slots and the position of its
              \* stream (fpos); NoReader; or the locals of a chunk scan under way
    ret       \* the last call: its name, its arguments, its result or exception

vars == <<w, file, written, rsrc, rd, ret>>

----------------------------------------------------------------------------
(* Bounds of the model.                                                    *)

\* the largest number of frames handed to one write
MaxLen == 2
\* writes that would move the cursor beyond this are not explored
MaxCursor == 2
\* the largest data payload, in bytes, of a reader's source stream
MaxSrcBytes == 8

----------------------------------------------------------------------------
(* Python integers.  A sample handed to the writer is an unbounded Python  *)
(* integer; it is held as q * 65536 + r with 0 <= r < 65536, so that       *)
(* values beyond 32 bits can be written down.                              *)

Lit(v) == [q |-> v \div 65536, r |-> v % 65536]

Big(q, r) == [q |-> q, r |-> r]

\* a + b on Python integers
PyAdd(a, b) ==
    LET s == a.r + b.r
    IN  [q |-> a.q + b.q + (s \div 65536), r |-> s % 65536]

\* a < b on Python integers
PyLess(a, b) == a.q < b.q \/ (a.q = b.q /\ a.r < b.r)

\* the mathematical clamp of a Python integer to [-32768, 32767]
ClampPy(p) ==
    IF p.q > 0 THEN 32767
    ELSE IF p.q < -1 THEN -32768
    ELSE IF p.q = 0 THEN (IF p.r > 32767 THEN 32767 ELSE p.r)
    ELSE (IF p.r - 65536 < -32768 THEN -32768 ELSE p.r - 65536)

\* TRUE when the Python integer lies in the signed 32-bit range
FitsInt32(p) == p.q >= -32768 /\ p.q <= 32767

----------------------------------------------------------------------------
(* Fixed-width arithmetic of the numpy arrays.                             *)

\* np.asarray(val, np.int32) on one element: the low 32 bits, signed
asarray_int32(p) ==
    LET q16 == p.q % 65536
        sq  == IF q16 >= 32768 THEN q16 - 65536 ELSE q16
    IN  sq * 65536 + p.r

\* np.clip(val, -32768, 32767).astype(np.int16) on one element
clip_int16(x) == IF x < -32768 THEN -32768 ELSE IF x > 32767 THEN 32767 ELSE x

\* the value an int16 array element holds after an arithmetic result x
WrapInt16(x) == ((x + 32768) % 65536) - 32768

\* an 8-bit encoding that rounds up: it adds 256 before the shift
enc_8_round_up(v) ==
    LET a == WrapInt16(v + 256)
        b == a \div 256
        c == WrapInt16(b + 128)
    IN  c % 256

\* (((val+128)>>8)+128).astype(np.uint8) on one int16 element
enc_8(v) ==
    LET a == WrapInt16(v + 128)
        b == a \div 256
        c == WrapInt16(b + 128)
    IN  c % 256

\* val.tostring() of one int16 element, little-endian
enc_16(v) == <<v % 256, (v \div 256) % 256>>

\* struct.pack('<L', n)
pack_L(n) == <<n % 256, (n \div 256) % 256, (n \div 65536) % 256, (n \div 16777216) % 256>>

\* struct.pack('<h', n)
pack_h(n) == <<n % 256, (n \div 256) % 256>>

\* struct.unpack('<L', s): s has four bytes
unpack_L(s) == s[1] + 256 * s[2] + 65536 * s[3] + 16777216 * s[4]

\* struct.unpack('<H', s): s has two bytes
unpack_H(s) == s[1] + 256 * s[2]

\* struct.unpack('<h', s): s has two bytes
unpack_h(s) ==
    LET u == s[1] + 256 * s[2] IN IF u >= 32768 THEN u - 65536 ELSE u

----------------------------------------------------------------------------
(* The byte streams (Python file objects).                                 *)

RECURSIVE Zeros(_)
Zeros(n) == IF n <= 0 THEN <<>> ELSE <<0>> \o Zeros(n - 1)

\* f.seek(pos); f.write(bytes): overwrite, extending the stream (a gap
\* beyond the old end reads back as zero bytes)
WriteAt(s, pos, bytes) ==
    LET n    == Len(bytes)
        base == IF Len(s) >= pos THEN s ELSE s \o Zeros(pos - Len(s))
        len  == IF Len(base) > pos + n THEN Len(base) ELSE pos + n
    IN  IF n = 0 THEN s
        ELSE [i \in 1..len |->
                IF i > pos /\ i <= pos + n THEN bytes[i - pos] ELSE base[i]]

\* f.seek(pos); f.read(n): at most n bytes, fewer at the end of the stream
ReadAt(s, pos, n) ==
    LET last == IF pos + n > Len(s) THEN Len(s) ELSE pos + n
    IN  IF pos >= Len(s) THEN <<>> ELSE SubSeq(s, pos + 1, last)

\* the four ASCII bytes of a chunk tag
TagRIFF == <<82, 73, 70, 70>>
TagWAVE == <<87, 65, 86, 69>>
TagFmt  == <<102, 109, 116, 32>>
TagFact == <<102, 97, 99, 116>>
TagData == <<100, 97, 116, 97>>
\* the placeholder 'xxxx'
Placeholder == <<120, 120, 120, 120>>

----------------------------------------------------------------------------
(* Arguments.  An optional integer (a slice bound that may be None) is the *)
(* empty tuple for None and <<n>> for n.  A block of samples is a record:  *)
(* dtype "list" (any other sequence of integers) or "int16" (a numpy int16  *)
(* array), dim 1 (one integer per row) or 2 (a pair per row), and rows.    *)

None == <<>>

Some(n) == <<n>>

\* the sample values handed to the writer in lists: an ordinary value, the
\* two values of the saturation examples, and 2^31
SampleTape == <<Lit(100), Lit(40000), Lit(-40000), Big(32768, 0)>>

\* the two-channel rows handed to the writer in lists
StereoTape == <<<<Lit(1000), Lit(-1000)>>, <<Lit(40000), Big(32768, 0)>>>>

Samples == {SampleTape[i] : i \in 1..Len(SampleTape)}

StereoRows == {StereoTape[i] : i \in 1..Len(StereoTape)}

Block(dtype, dim, rows) == [dtype |-> dtype, dim |-> dim, rows |-> rows]

\* the runs of k consecutive rows of a tape
Windows(tape, k) == {SubSeq(tape, o, o + k - 1) : o \in 1..(Len(tape) - k + 1)}

\* the blocks of at most n rows handed to the writer: lists of one or two
\* columns, and numpy int16 arrays of one or two columns
Blocks(n) ==
    UNION {
        {Block("list", 1, r) : r \in Windows(SampleTape, k)} \cup
        {Block("list", 2, r) : r \in Windows(StereoTape, k)}
      : k \in 0..n}
    \cup {Block("int16", 1, <<Lit(100)>>),
          Block("int16", 2, <<<<Lit(1000), Lit(-1000)>>>>)}

\* len(val)
len(val) == Len(val.rows)

\* val.shape
shape(val) == IF val.dim = 2 THEN <<Len(val.rows), 2>> ELSE <<Len(val.rows)>>

----------------------------------------------------------------------------
(* WaveFileWriter.                                                         *)

\* bpf of __init__: bytes per frame
writer_bpf(nchans, bits_per_samp) ==
    IF bits_per_samp > 8 THEN nchans * 2 ELSE nchans

\* the provisional container __init__ writes: 'RIFFxxxxWAVEfmt ', the fmt
\* payload, and 'fact' 4 'xxxx' 'data' 'xxxx'
provisional_header(nchans, bits_per_samp, sample_rate) ==
    LET bpf == writer_bpf(nchans, bits_per_samp)
    IN  TagRIFF \o Placeholder \o TagWAVE \o TagFmt
        \o pack_L(16) \o pack_h(1) \o pack_h(nchans) \o pack_L(sample_rate)
        \o pack_L(sample_rate * bpf) \o pack_h(bpf) \o pack_h(bits_per_samp)
        \o TagFact \o pack_L(4) \o Placeholder \o TagData \o Placeholder

\* the writer object __init__ leaves
new_writer(nchans, bits_per_samp, sample_rate) ==
    [nchans          |-> nchans,
     bits_per_samp   |-> bits_per_samp,
     sample_rate     |-> sample_rate,
     bytes_per_frame |-> writer_bpf(nchans, bits_per_samp),
     curindex        |-> 0,
     datapos         |-> Len(provisional_header(nchans, bits_per_samp, sample_rate)),
     f               |-> "open"]

\* the int16 value of one sample after lines 407-409: an int16 array is
\* taken as it is, anything else goes through int32 and is clipped
to_int16(dtype, p) ==
    IF dtype = "int16" THEN asarray_int32(p) ELSE clip_int16(asarray_int32(p))

\* the bytes of one int16 sample for the writer's bit depth
encode_sample(bits_per_samp, v) ==
    IF bits_per_samp = 8 THEN <<enc_8(v)>> ELSE enc_16(v)

RECURSIVE encode_rows(_, _, _, _)
\* val.tostring() after conversion: the rows in order, channels interleaved
encode_rows(bits_per_samp, dtype, dim, rows) ==
    IF rows = <<>> THEN <<>>
    ELSE LET r == Head(rows)
             b == IF dim = 2
                  THEN encode_sample(bits_per_samp, to_int16(dtype, r[1]))
                       \o encode_sample(bits_per_samp, to_int16(dtype, r[2]))
                  ELSE encode_sample(bits_per_samp, to_int16(dtype, r))
         IN  b \o encode_rows(bits_per_samp, dtype, dim, Tail(rows))

\* the test of line 391: TRUE when the slice parameters are invalid
invalid_slice(start, stop) ==
    start < 0 \/ (stop # None /\ stop[1] < start)

\* a test that lets a write start beyond the cursor, leaving a gap
in_sequence_gap(curindex, start) == start >= curindex

\* the test of line 400: TRUE when the write starts at the cursor
in_sequence(curindex, start) == curindex = start

\* the shape lines 413-415 expect
expected_shape(nchans, start, stop) ==
    IF nchans = 2 THEN <<stop - start, 2>> ELSE <<stop - start>>

\* a stream on which seek and write go through even after close()
seek_never_fails(f) == FALSE

\* self.f.seek of line 430: raises AttributeError when close() has set
\* self.f to None
seek_fails(f) == f = "None"

\* __setitem__ from line 391 on, for a slice start:stop (start already an
\* integer): the writer, the destination and the exception afterwards
setitem_body(wr, fl, start, stop, val) ==
    IF invalid_slice(start, stop)
    THEN [w |-> wr, file |-> fl, err |-> "IndexError: invalid slice parameters"]
    ELSE IF stop # None /\ len(val) + start # stop[1]
    THEN [w |-> wr, file |-> fl, err |-> "ValueError: size mismatch"]
    ELSE IF ~in_sequence(wr.curindex, start)
    THEN [w |-> wr, file |-> fl, err |-> "ValueError: must be in seq"]
    ELSE
      LET stop2 == IF stop = None THEN start + len(val) ELSE stop[1]
          w2    == [wr EXCEPT !.curindex = stop2]
      IN  IF shape(val) # expected_shape(wr.nchans, start, stop2)
          THEN [w |-> w2, file |-> fl, err |-> "ValueError: shape"]
          ELSE IF seek_fails(w2.f)
          THEN [w |-> w2, file |-> fl, err |-> "AttributeError"]
          ELSE [w    |-> w2,
                file |-> WriteAt(fl, wr.datapos + start * wr.bytes_per_frame,
                                 encode_rows(wr.bits_per_samp, val.dtype,
                                             val.dim, val.rows)),
                err  |-> "none"]

\* w[start:stop] = val
setitem_slice(wr, fl, start, stop, val) ==
    setitem_body(wr, fl, IF start = None THEN 0 ELSE start[1], stop, val)

\* w[i] = v: start = i, stop = i + 1, val = [v]
setitem_index(wr, fl, i, v, dim) ==
    setitem_body(wr, fl, i, Some(i + 1), Block("list", dim, <<v>>))

\* w.write_samples(seq)
write_samples(wr, fl, seq) ==
    setitem_slice(wr, fl, Some(wr.curindex), None, seq)

\* the bytes close() patches in: the RIFF length at 4, and the fact count,
\* 'data' and the data length at datapos - 12
close_patch(wr, fl) ==
    LET n    == wr.curindex
        p    == wr.datapos
        dlen == wr.bytes_per_frame * n
        d2   == pack_L(n) \o TagData \o pack_L(dlen)
        d1   == pack_L(dlen + p - 8)
    IN  WriteAt(WriteAt(fl, 4, d1), p - 12, d2)

\* a close() without the test of line 359: it patches the header again
close_again(wr, fl) ==
    [w |-> [wr EXCEPT !.f = "None"], file |-> close_patch(wr, fl)]

\* w.close()
close(wr, fl) ==
    IF wr.f = "None" THEN [w |-> wr, file |-> fl]
    ELSE [w |-> [wr EXCEPT !.f = "None"], file |-> close_patch(wr, fl)]

----------------------------------------------------------------------------
(* RiffReader.                                                             *)

\* (chklen + 1) & ~1
round_up_even(n) == n + (n % 2)

RECURSIVE scan_chunks(_, _, _, _, _)
\* the while loop of RiffReader.__init__: the chunk list, or the exception
scan_chunks(src, length, pos, nextpos, chunklist) ==
    IF ~(nextpos < length) THEN [err |-> "none", chunklist |-> chunklist]
    ELSE IF nextpos # pos /\ nextpos < pos
    THEN [err |-> "ValueError: bad chunk length", chunklist |-> chunklist]
    ELSE
      LET chkhdr == ReadAt(src, nextpos, 8)
          pos2   == nextpos + 8
      IN  IF Len(chkhdr) # 8
          THEN [err |-> "struct.error", chunklist |-> chunklist]
          ELSE LET chktype == SubSeq(chkhdr, 1, 4)
                   chklen  == unpack_L(SubSeq(chkhdr, 5, 8))
               IN  scan_chunks(src, length, pos2, pos2 + round_up_even(chklen),
                               Append(chunklist, <<chktype, pos2, chklen>>))

\* RiffReader.__init__ with expected_RIFFtype = 'WAVE'
riff_init(src) ==
    LET hdr == ReadAt(src, 0, 12)
    IN  IF Len(hdr) # 12 THEN [err |-> "struct.error", chunklist |-> <<>>]
        ELSE IF SubSeq(hdr, 9, 12) # TagWAVE
        THEN [err |-> "ValueError: expecting RIFF type", chunklist |-> <<>>]
        ELSE IF SubSeq(hdr, 1, 4) # TagRIFF
        THEN [err |-> "ValueError: RIFF header not found", chunklist |-> <<>>]
        ELSE scan_chunks(src, unpack_L(SubSeq(hdr, 5, 8)), 12, 12, <<>>)

RECURSIVE find_chunk_data(_, _)
\* the first entry of the chunk list with this tag, or <<>> when the code
\* raises "chunk type not found"
find_chunk_data(chunklist, chktype) ==
    IF chunklist = <<>> THEN <<>>
    ELSE IF Head(chunklist)[1] = chktype THEN Head(chunklist)
    ELSE find_chunk_data(Tail(chunklist), chktype)

----------------------------------------------------------------------------
(* The decoders.  A decoded frame is an integer (mono) or a pair (stereo). *)

dec_8_mono(s) == (s[1] - 128) * 256

dec_8_stereo(s) == <<(s[1] - 128) * 256, (s[2] - 128) * 256>>

dec_16_mono(s) == unpack_h(s)

dec_16_stereo(s) == <<unpack_h(SubSeq(s, 1, 2)), unpack_h(SubSeq(s, 3, 4))>>

\* samp_decoder on the bytes read: a short read makes the decoder raise
samp_decoder(dec, s) ==
    LET need == (IF dec[1] = 16 THEN 2 ELSE 1) * dec[2]
    IN  IF Len(s) # need THEN [err |-> "decode error", val |-> <<>>]
        ELSE [err |-> "none",
              val |-> IF dec[1] = 8
                      THEN (IF dec[2] = 2 THEN dec_8_stereo(s) ELSE dec_8_mono(s))
                      ELSE (IF dec[2] = 2 THEN dec_16_stereo(s) ELSE dec_16_mono(s))]

\* np.fromstring(s, np.uint8), then (a.astype(np.int16) - 128) * 256
dec_8_arr(s) == [i \in 1..Len(s) |-> WrapInt16((s[i] - 128) * 256)]

\* np.fromstring(s, np.int16) taken in the other byte order
dec_16_arr_swapped(s) ==
    [i \in 1..(Len(s) \div 2) |-> unpack_h(<<s[2 * i], s[2 * i - 1]>>)]

\* np.fromstring(s, np.int16) on a little-endian host; Len(s) is even
dec_16_arr(s) == [i \in 1..(Len(s) \div 2) |-> unpack_h(SubSeq(s, 2 * i - 1, 2 * i))]

\* a.shape = (n, 2) on a flat array of 2n elements
pair_rows(a, n) == [i \in 1..n |-> <<a[2 * i - 1], a[2 * i]>>]

\* arr_decoder(d, recs)
arr_decoder(dec, s, n) ==
    IF dec[1] = 16 /\ Len(s) % 2 # 0 THEN [err |-> "decode error", val |-> <<>>]
    ELSE LET a == IF dec[1] = 8 THEN dec_8_arr(s) ELSE dec_16_arr(s)
         IN  IF dec[2] = 2
             THEN (IF Len(a) # 2 * n THEN [err |-> "decode error", val |-> <<>>]
                   ELSE [err |-> "none", val |-> pair_rows(a, n)])
             ELSE [err |-> "none", val |-> a]

----------------------------------------------------------------------------
(* WaveFileReader.                                                         *)

NoReader == [state |-> "none"]

FailedReader == [state |-> "failed"]

\* the format test of line 126: TRUE when the format is supported
supported_format(comp_code, nchans, bits_per_samp) ==
    comp_code = 1 /\ nchans \in {1, 2} /\ 8 <= bits_per_samp /\ bits_per_samp <= 16

\* the decoder choice of lines 144-157: <<bits, nchans>>, or <<>> when no
\* branch binds sdec and adec
choose_decoder(bits_per_samp, nchans) ==
    IF bits_per_samp = 8 THEN <<8, nchans>>
    ELSE IF bits_per_samp = 16 THEN <<16, nchans>>
    ELSE <<>>

\* WaveFileReader.__init__ after the fmt chunk has been read; fpos is the
\* position get_chunk_data('fmt ') leaves the stream at
reader_from_fmt(chunklist, dat0) ==
    LET dat18         == IF Len(dat0) = 16 THEN dat0 \o <<0, 0>> ELSE dat0
        dat           == SubSeq(dat18, 1, IF Len(dat18) < 18 THEN Len(dat18) ELSE 18)
    IN
    IF Len(dat) # 18 THEN [err |-> "struct.error", rd |-> FailedReader]
    ELSE
    LET comp_code     == unpack_H(SubSeq(dat, 1, 2))
        nchans        == unpack_H(SubSeq(dat, 3, 4))
        samp_rate     == unpack_L(SubSeq(dat, 5, 8))
        bits_per_samp == unpack_H(SubSeq(dat, 15, 16))
    IN
    IF ~supported_format(comp_code, nchans, bits_per_samp)
    THEN [err |-> "ValueError: unsupported RIFF format", rd |-> FailedReader]
    ELSE
    LET bytes_per_frame == nchans * (IF bits_per_samp > 8 THEN 2 ELSE 1)
        data            == find_chunk_data(chunklist, TagData)
        fmt             == find_chunk_data(chunklist, TagFmt)
    IN
    IF data = <<>> THEN [err |-> "ValueError: chunk type not found", rd |-> FailedReader]
    ELSE IF samp_rate = 0 THEN [err |-> "ZeroDivisionError", rd |-> FailedReader]
    ELSE IF choose_decoder(bits_per_samp, nchans) = <<>>
    THEN [err |-> "UnboundLocalError", rd |-> FailedReader]
    ELSE [err |-> "none",
          rd  |-> [state           |-> "open",
                   chunklist       |-> chunklist,
                   nchans          |-> nchans,
                   bits_per_samp   |-> bits_per_samp,
                   bytes_per_frame |-> bytes_per_frame,
                   sample_rate     |-> samp_rate,
                   datapos         |-> data[2],
                   databytes       |-> data[3],
                   sample_count    |-> data[3] \div bytes_per_frame,
                   decoder         |-> choose_decoder(bits_per_samp, nchans),
                   fpos            |-> fmt[2] + Len(dat0)]]

\* WaveFileReader(src)
reader_init(src) ==
    LET riff == riff_init(src)
        fmt  == find_chunk_data(riff.chunklist, TagFmt)
    IN  IF riff.err # "none" THEN [err |-> riff.err, rd |-> FailedReader]
        ELSE IF fmt = <<>>
        THEN [err |-> "ValueError: chunk type not found", rd |-> FailedReader]
        ELSE reader_from_fmt(riff.chunklist, ReadAt(src, fmt[2], fmt[3]))

\* a bound taken without counting negative values from the end: they are
\* clamped to 0
slice_bound_no_wrap(x, n, default) ==
    IF x = None THEN default
    ELSE IF x[1] < 0 THEN 0 ELSE IF x[1] > n THEN n ELSE x[1]

\* a bound that is not clamped to the number of frames
slice_bound_unclamped(x, n, default) ==
    IF x = None THEN default
    ELSE LET v == IF x[1] < 0 THEN x[1] + n ELSE x[1]
         IN  IF v < 0 THEN 0 ELSE v

\* one bound of slice.indices(n) for step 1: None gives the default, a
\* negative value counts from the end, and the result is clamped to [0, n]
slice_bound(x, n, default) ==
    IF x = None THEN default
    ELSE LET v == IF x[1] < 0 THEN x[1] + n ELSE x[1]
         IN  IF v < 0 THEN 0 ELSE IF v > n THEN n ELSE v

\* a read that is not preceded by a seek: the stream stays where the last
\* read left it
seek_skipped(fpos, target) == fpos

\* f.seek(target): the position of the stream afterwards
seek_to(fpos, target) == target

\* r[start:stop]: the exception, the block, the reads issued <<pos, n>>, and
\* the position the stream is left at
getitem_slice(r, src, start, stop) ==
    LET n     == r.sample_count
        nf    == r.bytes_per_frame
        a     == slice_bound(start, n, 0)
        b     == slice_bound(stop, n, n)
        recs  == IF b - a > 0 THEN b - a ELSE 0
        p     == seek_to(r.fpos, r.datapos + nf * a)
        d     == IF recs # 0 THEN ReadAt(src, p, recs * nf) ELSE <<>>
        res   == arr_decoder(r.decoder, d, recs)
    IN  [err  |-> res.err, val |-> res.val,
         io   |-> IF recs # 0 THEN <<<<p, recs * nf>>>> ELSE <<>>,
         fpos |-> IF recs # 0 THEN p + Len(d) ELSE r.fpos]

\* an index taken as it is: a negative index is not counted from the end
normalize_index_none(i, n) == i

\* the index lines 189-190 leave: a negative index counts from the end
normalize_index(i, n) == IF i < 0 THEN i + n ELSE i

\* the test of line 191: TRUE when the index is in range
index_in_range(i, n) == 0 <= i /\ i < n

\* r[i]
getitem_index(r, src, i0) ==
    LET n  == r.sample_count
        nf == r.bytes_per_frame
        i  == normalize_index(i0, n)
    IN  IF ~index_in_range(i, n)
        THEN [err |-> "IndexError", val |-> <<>>, io |-> <<>>, fpos |-> r.fpos]
        ELSE LET p   == seek_to(r.fpos, r.datapos + nf * i)
                 d   == ReadAt(src, p, nf)
                 res == samp_decoder(r.decoder, d)
             IN  [err  |-> res.err, val |-> res.val,
                  io   |-> <<<<p, nf>>>>,
                  fpos |-> p + Len(d)]

----------------------------------------------------------------------------
(* The writer's life: construction, writes, close, and the file read back. *)

\* the configurations a writer is constructed with
WriterChannels == {1, 2}
WriterBits == {8, 16}
WriterRates == {8000}

\* the start and stop arguments tried by a write
StartArgs == {None} \cup {Some(i) : i \in -1..MaxCursor}

StopArgs(start, val) ==
    LET s == IF start = None THEN 0 ELSE start[1]
    IN  {None, Some(s + len(val)), Some(s + len(val) + 1), Some(s - 1)}

\* the bounds tried by a range read of a reader of n frames
RangeArgs(n) == {None} \cup {Some(i) : i \in (-n - 1)..(n + 1)}

\* the indexes tried by a scalar read of a reader of n frames
IndexArgs(n) == (-n - 2)..(n + 1)

NoWriter == [f |-> "absent"]

IsWrite(op) == op \in {"set_range", "set_index", "append"}

Init ==
    /\ \E nchans \in WriterChannels, bits \in WriterBits, rate \in WriterRates :
          /\ w = new_writer(nchans, bits, rate)
          /\ file = provisional_header(nchans, bits, rate)
    /\ written = <<>>
    /\ rsrc = <<>>
    /\ rd = NoReader
    /\ ret = [op |-> "init", err |-> "none"]

\* the effect of a write call whose outcome is r, handed the rows `rows`
WriteEffect(op, r, rows) ==
    /\ r.w.curindex <= MaxCursor
    /\ w' = r.w
    /\ file' = r.file
    /\ written' = IF r.err = "none" THEN written \o rows ELSE written
    /\ ret' = [op |-> op, err |-> r.err]
    /\ UNCHANGED <<rsrc, rd>>

\* w[start:stop] = val
SetRange ==
    /\ w.f # "absent"
    /\ \E val \in Blocks(MaxLen) : \E start \in StartArgs :
         \E stop \in StopArgs(start, val) :
            WriteEffect("set_range", setitem_slice(w, file, start, stop, val), val.rows)

\* w[i] = v
SetIndex ==
    /\ w.f # "absent"
    /\ \E i \in -1..MaxCursor :
         \/ \E v \in Samples :
               WriteEffect("set_index", setitem_index(w, file, i, v, 1), <<v>>)
         \/ \E v \in StereoRows :
               WriteEffect("set_index", setitem_index(w, file, i, v, 2), <<v>>)

\* w.write_samples(seq)
WriteSamples ==
    /\ w.f # "absent"
    /\ \E val \in Blocks(MaxLen) :
          WriteEffect("append", write_samples(w, file, val), val.rows)

\* w.close()
Close ==
    /\ w.f # "absent"
    /\ LET r == close(w, file)
       IN  /\ w' = r.w
           /\ file' = r.file
    /\ ret' = [op |-> "close", err |-> "none"]
    /\ UNCHANGED <<written, rsrc, rd>>

\* WaveFileReader on the file the closed writer left
Reopen ==
    /\ w.f = "None"
    /\ rd = NoReader
    /\ rsrc' = file
    /\ LET r == reader_init(file)
       IN  /\ rd' = r.rd
           /\ ret' = [op |-> "open", err |-> r.err]
    /\ UNCHANGED <<w, file, written>>

\* r[start:stop]
GetRange ==
    /\ rd.state = "open"
    /\ \E start \in RangeArgs(rd.sample_count), stop \in RangeArgs(rd.sample_count) :
          LET r == getitem_slice(rd, rsrc, start, stop)
          IN  /\ ret' = [op |-> "get_range", err |-> r.err, val |-> r.val, io |-> r.io]
              /\ rd' = [rd EXCEPT !.fpos = r.fpos]
    /\ UNCHANGED <<w, file, written, rsrc>>

\* r[i]
Get ==
    /\ rd.state = "open"
    /\ \E i \in IndexArgs(rd.sample_count) :
          LET r == getitem_index(rd, rsrc, i)
          IN  /\ ret' = [op |-> "get", err |-> r.err, val |-> r.val, io |-> r.io]
              /\ rd' = [rd EXCEPT !.fpos = r.fpos]
    /\ UNCHANGED <<w, file, written, rsrc>>

Next ==
    \/ SetRange
    \/ SetIndex
    \/ WriteSamples
    \/ Close
    \/ Reopen
    \/ GetRange
    \/ Get

Spec == Init /\ [][Next]_vars

----------------------------------------------------------------------------
(* A reader opened on a source stream of its own: a RIFF/WAVE container    *)
(* with a 16-byte fmt chunk, a data chunk and possibly a chunk after it.   *)

\* the fmt fields of the source streams
SourceCompCodes == {1, 2}
SourceChannels == {0, 1, 2, 3}
SourceBits == {7, 8, 12, 16, 17}
SourceRates == {0, 8000}

\* the data payload of n bytes
source_payload(n) == [i \in 1..n |-> (i * 91 + 37) % 256]

\* a chunk: tag, length, payload, and the pad byte after an odd payload
chunk_bytes(tag, payload) ==
    tag \o pack_L(Len(payload)) \o payload
        \o (IF Len(payload) % 2 = 1 THEN <<0>> ELSE <<>>)

\* the source stream: the RIFF length is the stream's length less 8
source_stream(comp_code, nchans, rate, bits, nbytes, trailer) ==
    LET fmt  == pack_h(comp_code) \o pack_h(nchans) \o pack_L(rate)
                \o pack_L(rate * nchans * 2) \o pack_h(nchans * 2) \o pack_h(bits)
        body == TagWAVE \o chunk_bytes(TagFmt, fmt)
                \o chunk_bytes(TagData, source_payload(nbytes))
                \o (IF trailer THEN chunk_bytes(TagFact, pack_L(0)) ELSE <<>>)
    IN  TagRIFF \o pack_L(Len(body)) \o body

InitR ==
    /\ \E comp_code \in SourceCompCodes, nchans \in SourceChannels,
          rate \in SourceRates, bits \in SourceBits,
          nbytes \in 0..MaxSrcBytes, trailer \in BOOLEAN :
          rsrc = source_stream(comp_code, nchans, rate, bits, nbytes, trailer)
    /\ rd = NoReader
    /\ w = NoWriter
    /\ file = <<>>
    /\ written = <<>>
    /\ ret = [op |-> "init", err |-> "none"]

\* WaveFileReader(source)
OpenSource ==
    /\ rd = NoReader
    /\ LET r == reader_init(rsrc)
       IN  /\ rd' = r.rd
           /\ ret' = [op |-> "open", err |-> r.err]
    /\ UNCHANGED <<w, file, written, rsrc>>

NextR ==
    \/ OpenSource
    \/ GetRange
    \/ Get

SpecR == InitR /\ [][NextR]_vars

----------------------------------------------------------------------------
(* The chunk scan of RiffReader.__init__, one loop iteration at a time, on *)
(* a stream that is not held in the model: each read delivers a chunk      *)
(* header chosen then (any tag, any unsigned 32-bit length), or comes back *)
(* short.  The scan never reads a position twice, so a stream fixed in     *)
(* advance delivers nothing else.  Positions and lengths are Python        *)
(* integers.                                                               *)

\* the largest RIFF length a scanned stream declares
MaxDeclared == 37
\* loop iterations beyond this are not explored
MaxScanIters == 6

\* the declared RIFF lengths of the scanned streams
ScanLengths == {Lit(n) : n \in 0..MaxDeclared}

\* the chunk lengths a header delivers: small ones, and the largest two
\* unsigned 32-bit values
ScanChunkLens == {Lit(0), Lit(1), Lit(2), Lit(7), Big(65535, 65534), Big(65535, 65535)}

\* the tags a header delivers
ScanTags == {TagFmt, TagData}

\* a header read that leaves the stream where it was
after_header_stay(pos) == pos

\* pos += 8 of line 82: the position after the chunk header
after_header(pos) == PyAdd(pos, Lit(8))

\* (chklen + 1) & ~1 computed in 32 bits: 0xFFFFFFFF gives 0
py_round_up_even_u32(chklen) ==
    IF chklen = Big(65535, 65535) THEN Lit(0) ELSE PyAdd(chklen, Lit(chklen.r % 2))

\* (chklen + 1) & ~1 of line 84 on a Python integer
py_round_up_even(chklen) == PyAdd(chklen, Lit(chklen.r % 2))

\* the scan before the first iteration (lines 72-74), for a declared length;
\* iters counts the iterations, seek is the last seek issued <<from, to>>
scan_begin(length) ==
    [state     |-> "scanning",
     length    |-> length,
     pos       |-> Lit(12),
     nextpos   |-> Lit(12),
     chunklist |-> <<>>,
     iters     |-> 0,
     seek      |-> <<>>,
     err       |-> "none"]

\* one iteration of the loop (lines 76-85): chkhdr is <<chktype, chklen>>, or
\* <<>> when f.read(8) comes back short
scan_step(st, chkhdr) ==
    IF st.nextpos # st.pos /\ PyLess(st.nextpos, st.pos)
    THEN [st EXCEPT !.state = "scan_failed", !.iters = st.iters + 1,
                    !.err = "ValueError: bad chunk length"]
    ELSE
      LET sk == IF st.nextpos # st.pos THEN <<st.pos, st.nextpos>> ELSE st.seek
      IN  IF chkhdr = <<>>
          THEN [st EXCEPT !.state = "scan_failed", !.iters = st.iters + 1,
                          !.pos = st.nextpos, !.seek = sk, !.err = "struct.error"]
          ELSE LET pos2 == after_header(st.nextpos)
               IN  [st EXCEPT !.pos       = pos2,
                              !.nextpos   = PyAdd(pos2, py_round_up_even(chkhdr[2])),
                              !.chunklist = Append(st.chunklist,
                                                   <<chkhdr[1], pos2, chkhdr[2]>>),
                              !.iters     = st.iters + 1,
                              !.seek      = sk]

\* the loop test of line 75
scan_continues(st) == PyLess(st.nextpos, st.length)

InitS ==
    /\ \E length \in ScanLengths : rd = scan_begin(length)
    /\ rsrc = <<>>
    /\ w = NoWriter
    /\ file = <<>>
    /\ written = <<>>
    /\ ret = [op |-> "init", err |-> "none"]

\* one iteration of the loop
ScanStep ==
    /\ rd.state = "scanning"
    /\ scan_continues(rd)
    /\ rd.iters < MaxScanIters
    /\ \E chkhdr \in {<<>>} \cup (ScanTags \X ScanChunkLens) :
          /\ rd' = scan_step(rd, chkhdr)
          /\ ret' = [op |-> "scan", err |-> rd'.err]
    /\ UNCHANGED <<w, file, written, rsrc>>

\* the loop test fails: the chunk list is stored (line 86)
ScanEnd ==
    /\ rd.state = "scanning"
    /\ ~scan_continues(rd)
    /\ rd' = [rd EXCEPT !.state = "scanned"]
    /\ ret' = [op |-> "scan_end", err |-> "none"]
    /\ UNCHANGED <<w, file, written, rsrc>>

NextS ==
    \/ ScanStep
    \/ ScanEnd

\* the loop runs inside one call of the constructor: nothing suspends it
SpecS == InitS /\ [][NextS]_vars /\ WF_vars(NextS)

----------------------------------------------------------------------------
(* Notions the properties share.                                           *)

\* the well-formed writes of a block to the writer: the block has the
\* writer's number of columns, and stop is open or start + len(val)
ShapedBlocks == {val \in Blocks(MaxLen) : val.dim = w.nchans}

ShapedStops(s, val) == {None, Some(s + len(val))}

\* TRUE when no write has moved the cursor without storing its frames
CleanHistory == w.curindex = Len(written)

\* the samples of the history, channel by channel, in write order
RECURSIVE flatten(_)
flatten(rows) ==
    IF rows = <<>> THEN <<>>
    ELSE (IF w.nchans = 2 THEN Head(rows) ELSE <<Head(rows)>>) \o flatten(Tail(rows))

\* the bytes of the destination that hold sample k (from 1) of the payload
StoredBytes(k) ==
    LET width == IF w.bits_per_samp > 8 THEN 2 ELSE 1
    IN  ReadAt(file, w.datapos + (k - 1) * width, width)

\* a frame of a source read by the format's rule: each channel is
\* (b - 128) * 256 of one byte, or the little-endian signed 16-bit value
StoredSample(src, off, bits) ==
    IF bits = 8 THEN (src[off + 1] - 128) * 256
    ELSE LET u == src[off + 1] + 256 * src[off + 2]
         IN  IF u >= 32768 THEN u - 65536 ELSE u

StoredFrame(src, off, bits, nchans) ==
    LET width == IF bits = 8 THEN 1 ELSE 2
    IN  IF nchans = 2
        THEN <<StoredSample(src, off, bits), StoredSample(src, off + width, bits)>>
        ELSE StoredSample(src, off, bits)

----------------------------------------------------------------------------
(* C1: writes are accepted in sequence only.                               *)

\* what C1 requires of the outcome r of a write of the frames val at start s
\* by a writer with cursor c: accepted exactly when s = c; when accepted, the
\* cursor is s + k, the encoded frames lie at data_start + s*bytes_per_frame
\* and the bytes before them are as they were; when s >= 0 differs from c,
\* the ordering ValueError; when s < 0, IndexError; a rejected write leaves
\* the writer and the destination as they were
WriteOutcome(r, s, val) ==
    LET c   == w.curindex
        k   == len(val)
        at  == w.datapos + s * w.bytes_per_frame
        enc == encode_rows(w.bits_per_samp, val.dtype, val.dim, val.rows)
    IN  /\ (r.err = "none") <=> (s = c)
        /\ r.err = "none" =>
              /\ r.w = [w EXCEPT !.curindex = s + k]
              /\ Len(enc) = k * w.bytes_per_frame
              /\ ReadAt(r.file, at, Len(enc)) = enc
              /\ ReadAt(r.file, 0, IF at < Len(file) THEN at ELSE Len(file))
                    = ReadAt(file, 0, at)
        /\ (s >= 0 /\ s # c) =>
              r.err = "ValueError: must be in seq" /\ r.w = w /\ r.file = file
        /\ s < 0 =>
              r.err = "IndexError: invalid slice parameters" /\ r.w = w /\ r.file = file

\* C1 as amended: for an open writer with cursor c, a write of k correctly
\* shaped frames (by w[start:stop] = val, w[i] = v or write_samples) is
\* accepted if and only if its start equals c; an accepted write stores its
\* bytes at data_start + start*bytes_per_frame and sets the cursor to
\* start + k; a write whose start is not negative and differs from c is
\* rejected with the ordering ValueError and the cursor stays at c; a write
\* whose start is negative is rejected with IndexError.
C1_InSequenceWrites ==
    w.f = "open" =>
      /\ \A val \in ShapedBlocks : \A s \in -1..(MaxCursor + 1) :
           \A stop \in ShapedStops(s, val) :
              WriteOutcome(setitem_slice(w, file, Some(s), stop, val), s, val)
      /\ \A val \in ShapedBlocks : \A stop \in ShapedStops(0, val) :
              WriteOutcome(setitem_slice(w, file, None, stop, val), 0, val)
      /\ \A val \in ShapedBlocks :
              WriteOutcome(write_samples(w, file, val), w.curindex, val)
      /\ \A val \in ShapedBlocks : \A i \in -1..(MaxCursor + 1) :
              len(val) = 1 =>
                 WriteOutcome(setitem_index(w, file, i, val.rows[1], val.dim), i,
                              Block("list", val.dim, val.rows))

\* C1 as stated: every write of correctly shaped frames whose start differs
\* from the cursor is rejected with the ordering ValueError.
C1_Original ==
    w.f = "open" =>
      \A val \in ShapedBlocks : \A s \in -1..(MaxCursor + 1) :
        \A stop \in ShapedStops(s, val) :
          LET r == setitem_slice(w, file, Some(s), stop, val)
          IN  /\ (r.err = "none") <=> (s = w.curindex)
              /\ s # w.curindex => r.err = "ValueError: must be in seq"

\* an open writer that has accepted two frames has just rejected a write
\* for its order
C1_Witness ==
    /\ w.f = "open"
    /\ w.curindex = 2
    /\ Len(written) = 2
    /\ ret.op = "set_range"
    /\ ret.err = "ValueError: must be in seq"

----------------------------------------------------------------------------
(* C2: a failed write leaves the cursor and the destination as they were.  *)

\* C2 as stated: a write on an open writer that raises leaves the cursor and
\* every byte of the destination as they were before the call.
C2_FailedWriteChangesNothing ==
    [][(w.f = "open" /\ IsWrite(ret'.op) /\ ret'.err # "none")
          => (w'.curindex = w.curindex /\ file' = file)]_vars

----------------------------------------------------------------------------
(* C3: a 16-bit file reads back as written.                                *)

\* C3 as stated: after accepted writes of n >= 1 frames to a 16-bit writer
\* and close, the reader opened on the file reports the writer's format and
\* n frames, and the range 0..n is the written samples, each clamped.
C3_RoundTrip16 ==
    (w.f = "None" /\ w.bits_per_samp = 16 /\ CleanHistory /\ Len(written) >= 1
       /\ rd # NoReader)
    => /\ rd.state = "open"
       /\ rd.nchans = w.nchans
       /\ rd.sample_rate = w.sample_rate
       /\ rd.bits_per_samp = w.bits_per_samp
       /\ rd.sample_count = Len(written)
       /\ LET r == getitem_slice(rd, rsrc, Some(0), Some(Len(written)))
          IN  /\ r.err = "none"
              /\ Len(r.val) = Len(written)
              /\ \A i \in 1..Len(written) :
                    r.val[i] = IF w.nchans = 2
                               THEN <<ClampPy(written[i][1]), ClampPy(written[i][2])>>
                               ELSE ClampPy(written[i])

----------------------------------------------------------------------------
(* C4: writes after close.                                                 *)

\* C4 as stated: every write attempted on a closed writer raises the
\* ValueError "writer is closed".
C4_WriteAfterCloseIsValueError ==
    (w.f = "None" /\ IsWrite(ret.op)) => ret.err = "ValueError: writer is closed"

----------------------------------------------------------------------------
(* C5: the header lengths after close.                                     *)

\* C5 as stated: after close the RIFF length field holds the destination's
\* length less 8 and the data length field holds the number of bytes that
\* follow the data chunk header.
C5_HeaderLengthsMatchFile ==
    w.f = "None" =>
       /\ unpack_L(ReadAt(file, 4, 4)) = Len(file) - 8
       /\ unpack_L(ReadAt(file, w.datapos - 4, 4)) = Len(file) - w.datapos

----------------------------------------------------------------------------
(* C6: the formats a reader opens.                                         *)

\* the fmt fields and the data length of a source stream, at the offsets
\* source_stream puts them
SrcCompCode == unpack_H(ReadAt(rsrc, 20, 2))
SrcChannels == unpack_H(ReadAt(rsrc, 22, 2))
SrcRate     == unpack_L(ReadAt(rsrc, 24, 4))
SrcBits     == unpack_H(ReadAt(rsrc, 34, 2))
SrcDataLen  == unpack_L(ReadAt(rsrc, 40, 4))

\* C6 as stated, for source streams with a positive sample rate and a data
\* chunk that is not empty: the open succeeds when compression_code = 1,
\* channels is 1 or 2 and 8 <= bits_per_sample <= 16, and raises the
\* unsupported-format error otherwise.
C6_OpenOutcome ==
    (ret.op = "open" /\ SrcRate > 0 /\ SrcDataLen > 0) =>
       IF SrcCompCode = 1 /\ SrcChannels \in {1, 2} /\ SrcBits >= 8 /\ SrcBits <= 16
       THEN ret.err = "none" /\ rd.state = "open"
       ELSE ret.err = "ValueError: unsupported RIFF format" /\ rd.state = "failed"

----------------------------------------------------------------------------
(* C7: 16-bit saturation.                                                  *)

\* C7 as stated: in a 16-bit writer every sample handed to an accepted
\* write is stored as its clamp to [-32768, 32767], and a write of any
\* integer sample is not an error.
C7_Saturates16 ==
    (w.f # "absent" /\ w.bits_per_samp = 16 /\ CleanHistory) =>
       /\ \A k \in 1..Len(flatten(written)) :
             unpack_h(StoredBytes(k)) = ClampPy(flatten(written)[k])
       /\ w.f = "open" =>
             \A val \in ShapedBlocks : write_samples(w, file, val).err = "none"

----------------------------------------------------------------------------
(* C8: 8-bit saturation.                                                   *)

\* C8 as stated, for samples within 32 bits: in an 8-bit writer the byte
\* stored for a sample v decodes, by (b - 128) * 256, to a value less than
\* 256 away from the clamp of v to [-32768, 32767].
C8_Saturates8 ==
    (w.f # "absent" /\ w.bits_per_samp = 8 /\ CleanHistory) =>
       \A k \in 1..Len(flatten(written)) :
          LET v == flatten(written)[k]
              d == dec_8_mono(StoredBytes(k)) - ClampPy(v)
          IN  FitsInt32(v) => (d < 256 /\ d > -256)

----------------------------------------------------------------------------
(* C9: close is idempotent.                                                *)

\* C9: a call of close() on a writer that is already closed changes no byte
\* of the destination and no field of the writer.
C9_CloseIdempotent ==
    [][(w.f = "None" /\ ret'.op = "close") => (w' = w /\ file' = file)]_vars

\* close has returned on a writer whose cursor has moved since the header
\* was patched: the writer had been closed before, and written to since
C9_Witness ==
    /\ w.f = "None"
    /\ ret.op = "close"
    /\ unpack_L(ReadAt(file, w.datapos - 12, 4)) # w.curindex

----------------------------------------------------------------------------
(* C10: scalar reads.                                                      *)

\* C10: for an open reader of N frames and every index i, r[i] returns the
\* frame stored at data_offset + j * bytes_per_frame, reading exactly those
\* bytes, where j = i for 0 <= i < N and j = i + N for -N <= i < 0; every
\* other i raises IndexError and reads nothing; r[-1] equals r[N - 1].
C10_ScalarIndex ==
    rd.state = "open" =>
      LET N == rd.sample_count
      IN  /\ \A i \in IndexArgs(N) :
                LET r == getitem_index(rd, rsrc, i)
                    j == IF i >= 0 THEN i ELSE i + N
                IN  IF -N <= i /\ i < N
                    THEN /\ r.err = "none"
                         /\ r.io = <<<<rd.datapos + j * rd.bytes_per_frame,
                                       rd.bytes_per_frame>>>>
                         /\ r.val = StoredFrame(rsrc, rd.datapos + j * rd.bytes_per_frame,
                                                rd.bits_per_samp, rd.nchans)
                    ELSE r.err = "IndexError" /\ r.io = <<>>
          /\ N >= 1 => getitem_index(rd, rsrc, -1) = getitem_index(rd, rsrc, N - 1)

\* a scalar read of a reader of at least two frames has returned the last
\* frame
C10_Witness ==
    /\ rd.state = "open"
    /\ rd.sample_count >= 2
    /\ ret.op = "get"
    /\ ret.err = "none"
    /\ ret.io = <<<<rd.datapos + (rd.sample_count - 1) * rd.bytes_per_frame,
                    rd.bytes_per_frame>>>>

----------------------------------------------------------------------------
(* Notions the reader's properties share.                                  *)

\* TRUE when the source holds every byte its data chunk declares
SourceHoldsData == rd.datapos + rd.databytes <= Len(rsrc)

\* frame j (from 0) of the reader's source, read by the format's rule
FrameOfSource(j) ==
    StoredFrame(rsrc, rd.datapos + j * rd.bytes_per_frame, rd.bits_per_samp, rd.nchans)

\* a slice bound as stated: open gives the default, a negative value counts
\* from the end, and the result is clamped into [0, N]
ClampedBound(x, N, default) ==
    IF x = None THEN default
    ELSE IF x[1] < -N THEN 0
    ELSE IF x[1] < 0 THEN x[1] + N
    ELSE IF x[1] > N THEN N
    ELSE x[1]

----------------------------------------------------------------------------
(* C11: range reads clamp their bounds.                                    *)

\* C11: for an open reader of N frames on a source that holds its data, and
\* every start and stop (negative, open, or beyond N), r[start:stop] does not
\* fail; with both bounds clamped into [0, N], negative values counted from
\* the end, the result has max(0, stop - start) frames, which are the frames
\* start..stop-1 of the source; r[-k:] for 1 <= k <= N is the last k frames;
\* an empty result issues no seek and no read.
C11_GetRangeClamps ==
    (rd.state = "open" /\ SourceHoldsData) =>
      LET N == rd.sample_count
      IN  /\ \A start \in RangeArgs(N), stop \in RangeArgs(N) :
                LET r == getitem_slice(rd, rsrc, start, stop)
                    a == ClampedBound(start, N, 0)
                    b == ClampedBound(stop, N, N)
                    m == IF b - a > 0 THEN b - a ELSE 0
                IN  /\ r.err = "none"
                    /\ Len(r.val) = m
                    /\ \A k \in 1..m : r.val[k] = FrameOfSource(a + k - 1)
                    /\ m = 0 => (r.io = <<>> /\ r.fpos = rd.fpos)
                    /\ m > 0 => r.io = <<<<rd.datapos + a * rd.bytes_per_frame,
                                           m * rd.bytes_per_frame>>>>
          /\ \A k \in 1..N :
                LET r == getitem_slice(rd, rsrc, Some(-k), None)
                IN  /\ r.err = "none"
                    /\ Len(r.val) = k
                    /\ \A j \in 1..k : r.val[j] = FrameOfSource(N - k + j - 1)

\* a range read of a reader of at least three frames has returned the last
\* two frames
C11_Witness ==
    /\ rd.state = "open"
    /\ rd.sample_count >= 3
    /\ ret.op = "get_range"
    /\ ret.err = "none"
    /\ Len(ret.val) = 2
    /\ ret.val[2] = FrameOfSource(rd.sample_count - 1)
    /\ ret.io = <<<<rd.datapos + (rd.sample_count - 2) * rd.bytes_per_frame,
                    2 * rd.bytes_per_frame>>>>

----------------------------------------------------------------------------
(* C12: Closed is a terminal state of the writer.                          *)

\* C12: once close() has returned, no call (a write by slice or by index,
\* write_samples, or close) changes a byte of the destination or makes the
\* writer open again.
C12_ClosedIsTerminal ==
    [][w.f = "None" => (w'.f = "None" /\ file' = file)]_vars

\* a write attempted on a closed writer has passed every check and failed at
\* the seek, after the writer had accepted a frame while it was open
C12_Witness ==
    /\ w.f = "None"
    /\ IsWrite(ret.op)
    /\ ret.err = "AttributeError"
    /\ Len(written) >= 1
    /\ w.curindex > Len(written)

----------------------------------------------------------------------------
(* C13: reads leave the reader as it was and do not depend on each other.  *)

\* the slots of a reader, without the position of its stream
ReaderFields(r) ==
    <<r.state, r.chunklist, r.nchans, r.bits_per_samp, r.bytes_per_frame,
      r.sample_rate, r.datapos, r.databytes, r.sample_count, r.decoder>>

\* what a read returns to its caller: the exception or the value
Returned(r) == <<r.err, r.val>>

\* C13: whatever reads (successful or failing) an open reader has served,
\* its format fields, frame count and data offset are those it had when it
\* was opened, and r[i] and r[a:b] return what they return on the reader
\* just opened on the same source.
C13_ReadsIndependent ==
    rd.state = "open" =>
      LET fresh == reader_init(rsrc).rd
          N     == rd.sample_count
      IN  /\ ReaderFields(rd) = ReaderFields(fresh)
          /\ \A i \in IndexArgs(N) :
                Returned(getitem_index(rd, rsrc, i))
                   = Returned(getitem_index(fresh, rsrc, i))
          /\ \A a \in RangeArgs(N), b \in RangeArgs(N) :
                Returned(getitem_slice(rd, rsrc, a, b))
                   = Returned(getitem_slice(fresh, rsrc, a, b))

\* a failing scalar read has followed reads that moved the stream away from
\* where the open left it
C13_Witness ==
    /\ rd.state = "open"
    /\ rd.sample_count >= 2
    /\ rd.fpos # reader_init(rsrc).rd.fpos
    /\ ret.op = "get"
    /\ ret.err = "IndexError"

----------------------------------------------------------------------------
(* C14: 8-bit encoding of a decoded byte gives the byte back.              *)

\* C14: for every byte b in 0..255, encoding the decoded value
\* (b - 128) * 256 by ((v + 128) >> 8) + 128, truncated to 8 bits, gives b;
\* so every byte an 8-bit writer has stored, for whatever sample v, is
\* reproduced by decoding it and encoding the result:
\* encode(decode(encode(v))) = encode(v).
C14_Encode8OfDecode8 ==
    /\ \A b \in 0..255 : enc_8(dec_8_mono(<<b>>)) = b
    /\ (w.f # "absent" /\ w.bits_per_samp = 8 /\ CleanHistory) =>
          \A k \in 1..Len(flatten(written)) :
             LET b == encode_sample(8, to_int16("list", flatten(written)[k]))
             IN  /\ StoredBytes(k) = b
                 /\ encode_sample(8, dec_8_mono(b)) = b

\* an 8-bit writer has stored two samples as different bytes
C14_Witness ==
    /\ w.f # "absent"
    /\ w.bits_per_samp = 8
    /\ CleanHistory
    /\ Len(flatten(written)) >= 2
    /\ StoredBytes(1) # StoredBytes(2)

----------------------------------------------------------------------------
(* C15: bulk decode agrees with scalar decode.                             *)

----------------------------------------------------------------------------
(* C16: the pad byte of the data chunk.                                    *)

\* C16 as stated: in the file a writer leaves after close, the data chunk's
\* length field holds the payload length frames_written * bytes_per_frame,
\* and when that length is odd one zero byte follows the payload, so that
\* the payload is padded to an even byte count.
C16_DataChunkPadded ==
    (w.f = "None" /\ CleanHistory) =>
       LET dlen == Len(written) * w.bytes_per_frame
       IN  /\ unpack_L(ReadAt(file, w.datapos - 4, 4)) = dlen
           /\ Len(file) = w.datapos + dlen + (dlen % 2)
           /\ dlen % 2 = 1 => ReadAt(file, w.datapos + dlen, 1) = <<0>>

----------------------------------------------------------------------------
(* C17: the file of a writer closed without a write.                       *)

\* the tags of a chunk list, in order
ChunkTags(chunklist) == [i \in 1..Len(chunklist) |-> chunklist[i][1]]

\* C17 as stated: the file left by a writer that was closed without any
\* write opens in a reader: the scanner indexes the fmt, fact and data
\* chunks, and the reader reports no frames.
C17_EmptyFileOpens ==
    (w.f = "None" /\ w.curindex = 0 /\ ret.op = "open") =>
       /\ ChunkTags(riff_init(rsrc).chunklist) = <<TagFmt, TagFact, TagData>>
       /\ ret.err = "none"
       /\ rd.state = "open"
       /\ rd.sample_count = 0

----------------------------------------------------------------------------
(* C18: the chunk index during the scan.                                   *)

\* a length rounded up to the next even number
EvenCeil(p) == IF p.r % 2 = 1 THEN PyAdd(p, Lit(1)) ELSE p

\* C18: at every step of a scan that has not failed, the first entry's data
\* offset is 20; each later entry's data offset is the previous entry's data
\* offset plus the previous data length rounded up to even plus 8, so that
\* offsets strictly increase and padded extents do not overlap; the header
\* of every indexed chunk (8 bytes before its data) starts below the
\* declared length; the next position is never below the current one, and
\* no seek has gone backward.
C18_ChunkIndexInvariant ==
    rd.state \in {"scanning", "scanned"} =>
      LET cl == rd.chunklist
      IN  /\ Len(cl) >= 1 => cl[1][2] = Lit(20)
          /\ \A i \in 2..Len(cl) :
                /\ cl[i][2] = PyAdd(PyAdd(cl[i - 1][2], EvenCeil(cl[i - 1][3])), Lit(8))
                /\ PyLess(cl[i - 1][2], cl[i][2])
                /\ ~PyLess(cl[i][2], PyAdd(cl[i - 1][2], EvenCeil(cl[i - 1][3])))
          /\ \A i \in 1..Len(cl) : PyLess(cl[i][2], PyAdd(rd.length, Lit(8)))
          /\ ~PyLess(rd.nextpos, rd.pos)
          /\ rd.seek # <<>> => ~PyLess(rd.seek[2], rd.seek[1])

\* a scan has ended with three chunks indexed, the second of odd length,
\* after a seek
C18_Witness ==
    /\ rd.state = "scanned"
    /\ Len(rd.chunklist) = 3
    /\ rd.chunklist[2][3] = Lit(1)
    /\ rd.seek # <<>>

----------------------------------------------------------------------------
(* C19: reads stay inside the data chunk.                                  *)

\* TRUE when every read of io, <<pos, n>>, lies inside the declared extent
\* of the reader's data chunk
InsideData(io) ==
    \A k \in 1..Len(io) :
       /\ io[k][1] >= rd.datapos
       /\ io[k][1] + io[k][2] <= rd.datapos + rd.databytes

\* C19: for an open reader, every r[i] that succeeds and every r[start:stop]
\* that is not empty reads the bytes
\* [data_offset + start*bytes_per_frame, data_offset + stop*bytes_per_frame)
\* only, and they lie inside [data_offset, data_offset + data_length), also
\* when data_length is not a multiple of bytes_per_frame.
C19_ReadsInsideDataChunk ==
    rd.state = "open" =>
      LET N  == rd.sample_count
          nf == rd.bytes_per_frame
      IN  /\ \A i \in IndexArgs(N) :
                LET r == getitem_index(rd, rsrc, i)
                    j == IF i < 0 THEN i + N ELSE i
                IN  r.err = "none" =>
                       (r.io = <<<<rd.datapos + j * nf, nf>>>> /\ InsideData(r.io))
          /\ \A start \in RangeArgs(N), stop \in RangeArgs(N) :
                LET r == getitem_slice(rd, rsrc, start, stop)
                    a == ClampedBound(start, N, 0)
                    b == ClampedBound(stop, N, N)
                IN  (r.err = "none" /\ Len(r.val) > 0) =>
                       (r.io = <<<<rd.datapos + a * nf, (b - a) * nf>>>>
                        /\ InsideData(r.io))
          /\ ret.op \in {"get", "get_range"} => InsideData(ret.io)

\* a range read has returned the last frame of a data chunk that ends in a
\* partial frame
C19_Witness ==
    /\ rd.state = "open"
    /\ rd.databytes % rd.bytes_per_frame # 0
    /\ ret.op = "get_range"
    /\ ret.err = "none"
    /\ Len(ret.io) = 1
    /\ ret.io[1][1] + ret.io[1][2] = rd.datapos + rd.sample_count * rd.bytes_per_frame

----------------------------------------------------------------------------
(* C20: the chunk scan terminates.                                         *)

\* C20: for every declared length and every sequence of chunk lengths
\* delivered (0 and 0xFFFFFFFF among them), each loop iteration moves the
\* next position forward by at least 8, starting from 12; an iteration is
\* entered only with the next position below the declared length, so after
\* n >= 1 iterations 12 + 8 * (n - 1) is below the declared length, which is
\* n <= ceil((declared_length - 12) / 8), and no iteration is made when the
\* declared length is at most 12; and the scan ends, with the index or with
\* an error.
C20_ScanTerminates ==
    /\ [](rd.state \in {"scanning", "scanned", "scan_failed"} =>
            /\ rd.state # "scan_failed" => ~PyLess(rd.nextpos, Lit(12 + 8 * rd.iters))
            /\ rd.iters >= 1 => PyLess(Lit(12 + 8 * (rd.iters - 1)), rd.length))
    /\ [][(rd.state = "scanning" /\ rd'.state = "scanning" /\ rd'.iters = rd.iters + 1)
             => ~PyLess(rd'.nextpos, PyAdd(rd.nextpos, Lit(8)))]_vars
    /\ <>(rd.state \in {"scanned", "scan_failed"})

\* a scan has ended after three iterations, one of which was handed a chunk
\* length of 0 and one 0xFFFFFFFF
C20_Witness ==
    /\ rd.state = "scanned"
    /\ rd.iters = 3
    /\ rd.chunklist[1][3] = Lit(0)
    /\ rd.chunklist[3][3] = Big(65535, 65535)

====
